---- MODULE Spec2Model ----
(***************************************************************************)
(* Model of the smart-insurance data pipelines:                            *)
(*   src/process_data.py                      year preference + aggregation*)
(*   src/tests/data/self_funded_classifier.py Schedule A index, funding    *)
(*                                            classifier, company roll-up  *)
(* Text is modelled as a sequence of one-character strings, so that        *)
(* strip(), slicing, int(), str() and startswith() are computed as the     *)
(* code computes them.                                                     *)
(***************************************************************************)
EXTENDS Integers, Sequences, FiniteSets, TLC

VARIABLES
    pc,               \* position of the modelled run
    available_years,  \* get_preferred_year: the argument list
    preferred_year,   \* get_preferred_year: the returned value
    rows,             \* build_schedA_index: the Schedule A rows read so far
    idx_by_begin,     \* build_schedA_index: index keyed by begin year
    idx_by_end,       \* build_schedA_index: index keyed by end year
    header_row,       \* classify_plan / main: the header row last handled
    verdict,          \* classify_plan: the returned (label, reasons, meta)
    args,             \* main: parsed command line (company, exact, year)
    plans,            \* main: the list of reported plans
    skipped,          \* main: why the last header row was skipped, if it was
    overall,          \* main: the printed company-level outcome
    schedule_a_details, \* aggregate_schedule_a_data: year -> list of plans
    agg_year,         \* aggregate_schedule_a_data: the preferred_year argument
    aggregated,       \* aggregate_schedule_a_data: the returned value
    input_file,       \* process_pe_data: what the input path holds
    raw_data,         \* process_pe_data: the loaded document
    processed_companies, \* process_pe_data: results of the companies so far
    companies_with_data, \* process_pe_data: count of results with has_data
    output_file       \* process_pe_data: what the output path holds

vars == <<pc, available_years, preferred_year, rows, idx_by_begin, idx_by_end,
          header_row, verdict, args, plans, skipped, overall,
          schedule_a_details, agg_year, aggregated,
          input_file, raw_data, processed_companies, companies_with_data,
          output_file>>

----------------------------------------------------------------------------
(* Bounds of the model *)

\* longest list of candidate years handed to get_preferred_year
MaxYears == 3
\* most Schedule A rows read by one index build
MaxRows == 3
\* most rows of the Schedule A file handed to the classifier
MaxFileRows == 1
\* most plans one classifier run reports
MaxPlans == 2
\* longest plan list of one Schedule A year handed to the aggregator
MaxYearPlans == 3
\* most companies of one input document
MaxCompanies == 2
\* width of the modelled binary floating point: significant bits of a value,
\* and bits after the binary point (Python's float has 53 significant bits)
MantBits == 8
FracBits == 10

----------------------------------------------------------------------------
(* Python values *)

\* dict.get on a key that is not there (the default applies)
Absent == <<"absent">>
\* the value None
NoneV == <<"none">>
\* a str value
Str(s) == <<"str", s>>
\* a raised exception
Raised(e) == <<"raise", e>>
\* the value a call returned, where the call may also raise
Returned(v) == <<"return", v>>

IsStr(v) == Len(v) = 2 /\ v[1] = "str"
IsRaised(v) == Len(v) = 2 /\ v[1] = "raise"

\* d.get(k, default): the default only when the key is absent
Get(v, default) == IF v = Absent THEN default ELSE v

\* (x or ""): None and the empty string are falsy
OrStr(v, s) == IF IsStr(v) /\ v[2] # <<>> THEN v[2] ELSE s

----------------------------------------------------------------------------
(* Text helpers *)

DigitChars == <<"0", "1", "2", "3", "4", "5", "6", "7", "8", "9">>
IsDigit(c) == \E i \in 1..10 : DigitChars[i] = c
DigitVal(c) == (CHOOSE i \in 1..10 : DigitChars[i] = c) - 1
IsSpace(c) == c = " "

RECURSIVE LStrip(_)
LStrip(s) == IF s # <<>> /\ IsSpace(Head(s)) THEN LStrip(Tail(s)) ELSE s

RECURSIVE RStrip(_)
RStrip(s) ==
    IF s # <<>> /\ IsSpace(s[Len(s)]) THEN RStrip(SubSeq(s, 1, Len(s) - 1)) ELSE s

\* str.strip()
Strip(s) == RStrip(LStrip(s))

\* s[:n]
Prefix(s, n) == SubSeq(s, 1, IF Len(s) < n THEN Len(s) ELSE n)

\* s.startswith(p)
StartsWith(s, p) == Len(s) >= Len(p) /\ SubSeq(s, 1, Len(p)) = p

\* p in s, for strings
Contains(s, p) ==
    \E i \in 1..(Len(s) + 1) :
        i + Len(p) - 1 <= Len(s) /\ SubSeq(s, i, i + Len(p) - 1) = p

\* str.isdigit(): non-empty and every character a digit
IsDigitStr(s) == s # <<>> /\ \A i \in 1..Len(s) : IsDigit(s[i])

RECURSIVE DigitsValue(_)
DigitsValue(s) ==
    IF s = <<>> THEN 0
    ELSE 10 * DigitsValue(SubSeq(s, 1, Len(s) - 1)) + DigitVal(s[Len(s)])

\* int(text): surrounding whitespace and one sign are accepted; anything that
\* is not then a run of digits raises ValueError
CanParseInt(s) ==
    LET t == Strip(s)
        body == IF t # <<>> /\ Head(t) \in {"+", "-"} THEN Tail(t) ELSE t
    IN IsDigitStr(body)

ParseInt(s) ==
    LET t == Strip(s)
        neg == t # <<>> /\ Head(t) = "-"
        body == IF t # <<>> /\ Head(t) \in {"+", "-"} THEN Tail(t) ELSE t
    IN IF neg THEN 0 - DigitsValue(body) ELSE DigitsValue(body)

RECURSIVE NatToStr(_)
NatToStr(n) ==
    IF n < 10 THEN <<DigitChars[n + 1]>>
    ELSE NatToStr(n \div 10) \o <<DigitChars[(n % 10) + 1]>>

\* str(n) for an int
IntToStr(n) == IF n < 0 THEN <<"-">> \o NatToStr(0 - n) ELSE NatToStr(n)

----------------------------------------------------------------------------
(* process_data.py: get_preferred_year *)

Year2023 == 2023
Year2022 == 2022
Year2024 == 2024

Text2021 == <<"2", "0", "2", "1">>
Text2022 == <<"2", "0", "2", "2">>
Text2023 == <<"2", "0", "2", "3">>
Text2024 == <<"2", "0", "2", "4">>

\* the candidate year strings the model draws from: canonical years around
\* the preferred ones, and two spellings int() accepts but str() does not give
\* back (a leading zero, a leading blank)
YearStrings ==
    { <<"2", "0", "2", "1">>, <<"2", "0", "2", "2">>, <<"2", "0", "2", "3">>,
      <<"2", "0", "2", "4">>, <<"2", "0", "2", "5">>,
      <<"0", "2", "0", "2", "1">>, <<" ", "2", "0", "2", "4">> }

RECURSIVE InsertDesc(_, _)
InsertDesc(sorted, y) ==
    IF sorted = <<>> THEN <<y>>
    ELSE IF y > Head(sorted) THEN <<y>> \o sorted
    ELSE <<Head(sorted)>> \o InsertDesc(Tail(sorted), y)

\* years.sort(reverse=True)
RECURSIVE SortDesc(_)
SortDesc(s) == IF s = <<>> THEN <<>> ELSE InsertDesc(SortDesc(Tail(s)), Head(s))

InList(x, s) == \E i \in 1..Len(s) : s[i] = x

\* for year in years: if year != 2024: return str(year) ; return str(years[0])
RECURSIVE FirstNot2024(_, _)
FirstNot2024(years, all) ==
    IF years = <<>> THEN Str(IntToStr(all[1]))
    ELSE IF Head(years) # Year2024 THEN Str(IntToStr(Head(years)))
    ELSE FirstNot2024(Tail(years), all)

\* Faulty variants of get_preferred_year: one of the three preference tests
\* is left out (the 2023 test, the 2022 test, the skipping of 2024).
FaultyResolver(ys, test2023, test2022, skip2024) ==
    IF ys = <<>> THEN NoneV
    ELSE
        LET years == SortDesc([i \in 1..Len(ys) |-> ParseInt(ys[i])])
        IN IF test2023 /\ InList(Year2023, years) THEN Str(IntToStr(Year2023))
           ELSE IF test2022 /\ InList(Year2022, years) THEN Str(IntToStr(Year2022))
           ELSE IF skip2024 THEN FirstNot2024(years, years)
           ELSE Str(IntToStr(years[1]))

get_preferred_year_without_2023_test(ys) == FaultyResolver(ys, FALSE, TRUE, TRUE)
get_preferred_year_without_2022_test(ys) == FaultyResolver(ys, TRUE, FALSE, TRUE)
get_preferred_year_keeping_2024(ys) == FaultyResolver(ys, TRUE, TRUE, FALSE)

get_preferred_year(ys) ==
    IF ys = <<>> THEN NoneV
    ELSE IF \E i \in 1..Len(ys) : ~CanParseInt(ys[i]) THEN Raised("ValueError")
    ELSE
        LET years == SortDesc([i \in 1..Len(ys) |-> ParseInt(ys[i])])
        IN IF InList(Year2023, years) THEN Str(<<"2", "0", "2", "3">>)
           ELSE IF InList(Year2022, years) THEN Str(<<"2", "0", "2", "2">>)
           ELSE IF Len(years) = 1 /\ InList(Year2024, years)
                THEN Str(<<"2", "0", "2", "4">>)
           ELSE FirstNot2024(years, years)

----------------------------------------------------------------------------
(* self_funded_classifier.py: is_true, has_health_4A, build_schedA_index *)

\* str(v): a str is itself, None is the text None
PyStr(v) == IF IsStr(v) THEN v[2] ELSE <<"N", "o", "n", "e">>

TRUTHY ==
    { <<"1">>, <<"Y">>, <<"y">>, <<"T", "R", "U", "E">>, <<"T", "r", "u", "e">>,
      <<"t", "r", "u", "e">> }

is_true(v) == Strip(PyStr(v)) \in TRUTHY

has_health_4A(code) == Contains(OrStr(code, <<>>), <<"4", "A">>)

\* by[:4] if len(by) >= 4 else ""
YearPrefix(date) == IF Len(date) >= 4 THEN Prefix(date, 4) ELSE <<>>

\* defaultdict(lambda: {"health": False, "stop": False}) with no key yet
EmptyIndex == <<>>
NoFlags == [health |-> FALSE, stop |-> FALSE]

\* idx[key][flag] = True, the entry being created on first access
SetFlag(idx, key, flag) ==
    IF key \in DOMAIN idx THEN [idx EXCEPT ![key][flag] = TRUE]
    ELSE idx @@ (key :> [NoFlags EXCEPT ![flag] = TRUE])

\* Faulty variant of MergeFlags: the row's flags are stored, not OR-ed in.
MergeFlagsOverwriting(idx, key, h, s) ==
    IF key \in DOMAIN idx THEN [idx EXCEPT ![key] = [health |-> h, stop |-> s]]
    ELSE idx @@ (key :> [health |-> h, stop |-> s])

\* if h: idx[key]["health"] = True ; if s: idx[key]["stop"] = True
MergeFlags(idx, key, h, s) ==
    LET withH == IF h THEN SetFlag(idx, key, "health") ELSE idx
    IN IF s THEN SetFlag(withH, key, "stop") ELSE withH

\* Faulty variant of IndexRowInto: rows without an employer id or plan number
\* are indexed like any other.
IndexRowIntoUnskipped(idx, r) ==
    LET ein == Strip(OrStr(r.SCH_A_EIN, <<>>))
        pn == Strip(OrStr(r.SCH_A_PLAN_NUM, <<>>))
        begin_year == YearPrefix(Strip(OrStr(r.SCH_A_PLAN_YEAR_BEGIN_DATE, <<>>)))
        end_year == YearPrefix(Strip(OrStr(r.SCH_A_PLAN_YEAR_END_DATE, <<>>)))
        h == is_true(Get(r.WLFR_BNFT_HEALTH_IND, Str(<<>>)))
        s == is_true(Get(r.WLFR_BNFT_STOP_LOSS_IND, Str(<<>>)))
    IN << IF begin_year # <<>>
            THEN MergeFlags(idx[1], <<ein, pn, begin_year>>, h, s) ELSE idx[1],
          IF end_year # <<>>
            THEN MergeFlags(idx[2], <<ein, pn, end_year>>, h, s) ELSE idx[2] >>

\* the body of the reader loop, on the pair of indexes
IndexRowInto(idx, r) ==
    LET ein == Strip(OrStr(r.SCH_A_EIN, <<>>))
        pn == Strip(OrStr(r.SCH_A_PLAN_NUM, <<>>))
        by == Strip(OrStr(r.SCH_A_PLAN_YEAR_BEGIN_DATE, <<>>))
        ey == Strip(OrStr(r.SCH_A_PLAN_YEAR_END_DATE, <<>>))
        begin_year == YearPrefix(by)
        end_year == YearPrefix(ey)
        h == is_true(Get(r.WLFR_BNFT_HEALTH_IND, Str(<<>>)))
        s == is_true(Get(r.WLFR_BNFT_STOP_LOSS_IND, Str(<<>>)))
    IN IF ein = <<>> \/ pn = <<>> THEN idx
       ELSE << IF begin_year # <<>>
                 THEN MergeFlags(idx[1], <<ein, pn, begin_year>>, h, s) ELSE idx[1],
               IF end_year # <<>>
                 THEN MergeFlags(idx[2], <<ein, pn, end_year>>, h, s) ELSE idx[2] >>

\* build_schedA_index over a whole file
RECURSIVE build_schedA_index(_)
build_schedA_index(rs) ==
    IF rs = <<>> THEN <<EmptyIndex, EmptyIndex>>
    ELSE IndexRowInto(build_schedA_index(SubSeq(rs, 1, Len(rs) - 1)), rs[Len(rs)])

\* Schedule A rows the model draws from
Ein12 == <<"1", "2">>
Plan001 == <<"0", "0", "1">>
Date2023Jan == Text2023 \o <<"-", "0", "1">>
Date2023Dec == Text2023 \o <<"-", "1", "2">>
Date2024Dec == <<" ">> \o Text2024 \o <<"-", "1", "2">>
DateShort == <<"2", "0", "2">>

SARow(ein, pn, by, ey, h, s) ==
    [SCH_A_EIN |-> ein, SCH_A_PLAN_NUM |-> pn,
     SCH_A_PLAN_YEAR_BEGIN_DATE |-> by, SCH_A_PLAN_YEAR_END_DATE |-> ey,
     WLFR_BNFT_HEALTH_IND |-> h, WLFR_BNFT_STOP_LOSS_IND |-> s]

SchedARows ==
    { SARow(Str(<<" ">> \o Ein12), Str(Plan001), Str(d[1]), Str(d[2]), h, s) :
        d \in { <<Date2023Jan, Date2023Dec>>, <<Date2023Jan, Date2024Dec>> },
        h \in {Str(<<"1">>), Str(<<"0">>)},
        s \in {Str(<<"Y", " ">>), Absent} }
    \cup { SARow(Str(Ein12), Str(Plan001), Str(DateShort), Str(<<>>),
                 Str(<<"1">>), Str(<<"1">>)),
           SARow(NoneV, Str(Plan001), Str(Date2023Jan), Str(Date2023Dec),
                 Str(<<"1">>), Str(<<"1">>)),
           SARow(Str(Ein12), Str(<<" ">>), Str(Date2023Jan), Str(Date2023Dec),
                 Str(<<"1">>), Str(<<"1">>)) }

----------------------------------------------------------------------------
(* self_funded_classifier.py: classify_plan *)

\* the classification labels, as text
LabelInsured ==
    <<"I", "n", "s", "u", "r", "e", "d">>
LabelStopLoss ==
    <<"S", "e", "l", "f", "-", "f", "u", "n", "d", "e", "d", " ", "w", "/",
      " ", "s", "t", "o", "p", "-", "l", "o", "s", "s">>
LabelLikelySelfFundedSchedA ==
    <<"L", "i", "k", "e", "l", "y", " ", "s", "e", "l", "f", "-", "f", "u",
      "n", "d", "e", "d", " ", "(", "n", "o", "n", "-", "m", "e", "d", "i",
      "c", "a", "l", " ", "S", "c", "h", "e", "d", "u", "l", "e", " ", "A",
      ")">>
LabelSelfFunded ==
    <<"S", "e", "l", "f", "-", "f", "u", "n", "d", "e", "d">>
LabelLikelyInsured ==
    <<"L", "i", "k", "e", "l", "y", " ", "i", "n", "s", "u", "r", "e", "d",
      " ", "(", "n", "e", "e", "d", "s", " ", "S", "c", "h", "e", "d", " ",
      "A", " ", "v", "e", "r", "i", "f", "i", "c", "a", "t", "i", "o", "n",
      ")">>
LabelIndeterminate ==
    <<"I", "n", "d", "e", "t", "e", "r", "m", "i", "n", "a", "t", "e", " ",
      "(", "n", "e", "e", "d", "s", " ", "S", "c", "h", "e", "d", " ", "A",
      " ", "d", "e", "t", "a", "i", "l", ")">>
LabelLikelySelfFundedAbsence ==
    <<"L", "i", "k", "e", "l", "y", " ", "s", "e", "l", "f", "-", "f", "u",
      "n", "d", "e", "d", " ", "(", "a", "b", "s", "e", "n", "c", "e", " ",
      "o", "f", " ", "h", "e", "a", "l", "t", "h", " ", "S", "c", "h", "e",
      "d", "u", "l", "e", " ", "A", ")">>

\* sa_begin_idx.get(key) followed by `if flags:` and flags.get(name, False)
Lookup(idx, key, flag) == key \in DOMAIN idx /\ idx[key][flag]

\* lines 65-77: both lookups, OR-combined
ResolveFlags(h, begin_idx, end_idx) ==
    LET ein == Strip(OrStr(h.SPONS_DFE_EIN, <<>>))
        pn == Strip(OrStr(h.SPONS_DFE_PN, <<>>))
        fby == Strip(OrStr(h.FORM_PLAN_YEAR_BEGIN_DATE, <<>>))
        fte == Strip(OrStr(h.FORM_TAX_PRD, <<>>))
        year_b == YearPrefix(fby)
        year_e == YearPrefix(fte)
        keyed == ein # <<>> /\ pn # <<>>
        hit(idx, year, flag) == keyed /\ year # <<>> /\ Lookup(idx, <<ein, pn, year>>, flag)
    IN [health |-> hit(begin_idx, year_b, "health") \/ hit(end_idx, year_e, "health"),
        stop |-> hit(begin_idx, year_b, "stop") \/ hit(end_idx, year_e, "stop")]

\* is_true(SCH_A_ATTACHED_IND) or the attached count is neither "" nor "0"
AnySchA(h) ==
    \/ is_true(Get(h.SCH_A_ATTACHED_IND, Str(<<"0">>)))
    \/ Strip(PyStr(Get(h.NUM_SCH_A_ATTACHED_CNT, Str(<<"0">>)))) \notin {<<>>, <<"0">>}

Meta(h) ==
    [ein |-> Strip(OrStr(h.SPONS_DFE_EIN, <<>>)),
     plan_number |-> Strip(OrStr(h.SPONS_DFE_PN, <<>>)),
     plan_year_begin |-> Strip(OrStr(h.FORM_PLAN_YEAR_BEGIN_DATE, <<>>)),
     plan_year_end |-> Strip(OrStr(h.FORM_TAX_PRD, <<>>))]

\* Faulty variant of classify_plan: the header's general-assets rule is
\* tried before the Schedule A rules.
classify_plan_header_first(h, begin_idx, end_idx) ==
    LET sa == ResolveFlags(h, begin_idx, end_idx)
        ga == is_true(Get(h.BENEFIT_GEN_ASSET_IND, Str(<<"0">>)))
                \/ is_true(Get(h.FUNDING_GEN_ASSET_IND, Str(<<"0">>)))
    IN IF ga THEN <<LabelSelfFunded, <<"Header indicates general assets funding/benefit">>, Meta(h)>>
       ELSE IF sa.health THEN <<LabelInsured, <<"Schedule A shows health/medical coverage">>, Meta(h)>>
       ELSE <<LabelLikelySelfFundedAbsence, <<"No Sched A and no clear arrangement flags">>, Meta(h)>>

\* Faulty variant of classify_plan: the insurance-flag rule and the
\* Schedule-A-attached rule are tried in the opposite order.
classify_plan_attached_first(h, begin_idx, end_idx) ==
    LET sa == ResolveFlags(h, begin_idx, end_idx)
        ins == is_true(Get(h.BENEFIT_INSURANCE_IND, Str(<<"0">>)))
                 \/ is_true(Get(h.FUNDING_INSURANCE_IND, Str(<<"0">>)))
        ga == is_true(Get(h.BENEFIT_GEN_ASSET_IND, Str(<<"0">>)))
                \/ is_true(Get(h.FUNDING_GEN_ASSET_IND, Str(<<"0">>)))
    IN IF sa.health THEN <<LabelInsured, <<>>, Meta(h)>>
       ELSE IF sa.stop THEN <<LabelStopLoss, <<>>, Meta(h)>>
       ELSE IF ga /\ AnySchA(h) THEN <<LabelLikelySelfFundedSchedA, <<>>, Meta(h)>>
       ELSE IF ga THEN <<LabelSelfFunded, <<>>, Meta(h)>>
       ELSE IF AnySchA(h) THEN <<LabelIndeterminate, <<>>, Meta(h)>>
       ELSE IF ins THEN <<LabelLikelyInsured, <<>>, Meta(h)>>
       ELSE <<LabelLikelySelfFundedAbsence, <<>>, Meta(h)>>

\* returns (label, reasons, meta)
classify_plan(h, begin_idx, end_idx) ==
    LET benefit_ins == is_true(Get(h.BENEFIT_INSURANCE_IND, Str(<<"0">>)))
        benefit_ga == is_true(Get(h.BENEFIT_GEN_ASSET_IND, Str(<<"0">>)))
        funding_ins == is_true(Get(h.FUNDING_INSURANCE_IND, Str(<<"0">>)))
        funding_ga == is_true(Get(h.FUNDING_GEN_ASSET_IND, Str(<<"0">>)))
        any_scha == AnySchA(h)
        sa == ResolveFlags(h, begin_idx, end_idx)
        sa_h == sa.health
        sa_s == sa.stop
    IN IF sa_h THEN
           <<LabelInsured,
             <<"Schedule A shows health/medical coverage">>
               \o (IF benefit_ins \/ funding_ins
                   THEN <<"Header insurance arrangement flags present">> ELSE <<>>),
             Meta(h)>>
       ELSE IF sa_s /\ ~sa_h THEN
           <<LabelStopLoss,
             <<"Schedule A shows stop-loss but no medical">>
               \o (IF benefit_ga \/ funding_ga
                   THEN <<"Header general-assets arrangement present">> ELSE <<>>),
             Meta(h)>>
       ELSE IF benefit_ga \/ funding_ga THEN
           IF any_scha THEN
               <<LabelLikelySelfFundedSchedA,
                 <<"Header indicates general assets funding/benefit",
                   "Schedule A attached (non-medical or unknown)">>,
                 Meta(h)>>
           ELSE
               <<LabelSelfFunded,
                 <<"Header indicates general assets funding/benefit">>, Meta(h)>>
       ELSE IF benefit_ins \/ funding_ins THEN
           <<LabelLikelyInsured,
             <<"Header indicates insurance arrangement but no SA health flag found">>,
             Meta(h)>>
       ELSE IF any_scha THEN
           <<LabelIndeterminate,
             <<"Schedule A attached but lacks health/stop-loss flags for this plan-year">>,
             Meta(h)>>
       ELSE
           <<LabelLikelySelfFundedAbsence,
             <<"No Sched A and no clear arrangement flags">>, Meta(h)>>

----------------------------------------------------------------------------
(* self_funded_classifier.py: norm, main *)

UpperChars ==
    <<"A", "B", "C", "D", "E", "F", "G", "H", "I", "J", "K", "L", "M",
      "N", "O", "P", "Q", "R", "S", "T", "U", "V", "W", "X", "Y", "Z">>
LowerChars ==
    <<"a", "b", "c", "d", "e", "f", "g", "h", "i", "j", "k", "l", "m",
      "n", "o", "p", "q", "r", "s", "t", "u", "v", "w", "x", "y", "z">>
LowerChar(c) ==
    IF \E i \in 1..26 : UpperChars[i] = c
    THEN LowerChars[CHOOSE i \in 1..26 : UpperChars[i] = c] ELSE c
\* str.lower()
Lower(s) == [i \in 1..Len(s) |-> LowerChar(s[i])]

\* (s or "").strip().lower()
norm(v) == Lower(Strip(OrStr(v, <<>>)))

\* an int value
IntV(n) == <<"int", n>>

\* lines 132-138: the company filter
CompanyMatches(r, a) ==
    LET sponsor == Get(r.SPONSOR_DFE_NAME, Str(<<>>))
        company_q == norm(Str(a.company))
    IN IF a.exact THEN norm(sponsor) = company_q
       ELSE Contains(norm(sponsor), company_q)

\* lines 140-147: the year filter; the dates are sliced without strip()
YearMatches(r, a) ==
    LET by == Prefix(OrStr(r.FORM_PLAN_YEAR_BEGIN_DATE, <<>>), 4)
        ey == Prefix(OrStr(r.FORM_TAX_PRD, <<>>), 4)
    IN \/ a.year = NoneV
       \/ (IsDigitStr(by) /\ DigitsValue(by) = a.year[2])
       \/ (IsDigitStr(ey) /\ DigitsValue(ey) = a.year[2])

\* lines 149-163: has4a or sa_h, the dates sliced without strip() and without
\* the length test
FilterHealth(r, begin_idx, end_idx) ==
    LET has4a == has_health_4A(Get(r.TYPE_WELFARE_BNFT_CODE, Str(<<>>)))
        ein == Strip(OrStr(r.SPONS_DFE_EIN, <<>>))
        pnum == Strip(OrStr(r.SPONS_DFE_PN, <<>>))
        by == Prefix(OrStr(r.FORM_PLAN_YEAR_BEGIN_DATE, <<>>), 4)
        ey == Prefix(OrStr(r.FORM_TAX_PRD, <<>>), 4)
        sa_h == /\ ein # <<>> /\ pnum # <<>>
                /\ \/ Lookup(begin_idx, <<ein, pnum, by>>, "health")
                   \/ Lookup(end_idx, <<ein, pnum, ey>>, "health")
    IN has4a \/ sa_h

\* lines 168-177: the entry appended to plans
PlanEntry(r, begin_idx, end_idx) ==
    LET c == classify_plan(r, begin_idx, end_idx)
    IN [plan_name |-> Get(r.PLAN_NAME, Str(<<>>)),
        plan_number |-> c[3].plan_number,
        ein |-> c[3].ein,
        plan_year_begin |-> c[3].plan_year_begin,
        plan_year_end |-> c[3].plan_year_end,
        classification |-> c[1],
        reasons |-> c[2]]

TextSelfFunded == <<"S", "e", "l", "f", "-", "f", "u", "n", "d", "e", "d">>
TextLikelySelfFunded == <<"L", "i", "k", "e", "l", "y", " ">> \o Lower(TextSelfFunded)
TextLikelyInsured == <<"L", "i", "k", "e", "l", "y", " ", "i", "n", "s", "u", "r", "e", "d">>

\* Faulty variant of Rollup: only labels that begin with Self-funded count
\* as self-funded.
RollupMissingLikely(classes) ==
    IF \E i \in 1..Len(classes) : StartsWith(classes[i], TextSelfFunded)
    THEN "Self-funded (at least one plan)"
    ELSE IF \A i \in 1..Len(classes) :
                classes[i] = LabelInsured \/ StartsWith(classes[i], TextLikelyInsured)
    THEN "Insured"
    ELSE "Mixed/Indeterminate"

\* lines 183-189: the overall label of a non-empty list of labels
Rollup(classes) ==
    IF \E i \in 1..Len(classes) :
           StartsWith(classes[i], TextSelfFunded)
             \/ StartsWith(classes[i], TextLikelySelfFunded)
    THEN "Self-funded (at least one plan)"
    ELSE IF \A i \in 1..Len(classes) :
                classes[i] = LabelInsured \/ StartsWith(classes[i], TextLikelyInsured)
    THEN "Insured"
    ELSE "Mixed/Indeterminate"

----------------------------------------------------------------------------
(* process_data.py: float(), float addition, aggregate_schedule_a_data *)

\* A float is modelled as a signed integer count of units of 2^-FracBits with
\* at most MantBits significant bits; every parse and every addition rounds
\* to nearest, ties to even, as IEEE 754 arithmetic does.
RECURSIVE Pow(_, _)
Pow(b, n) == IF n = 0 THEN 1 ELSE b * Pow(b, n - 1)

\* a / b rounded to the nearest integer, ties to even (a >= 0, b > 0)
RoundDiv(a, b) ==
    LET q == a \div b
        r == a % b
    IN IF 2 * r > b \/ (2 * r = b /\ q % 2 = 1) THEN q + 1 ELSE q

\* the least e >= 0 with a / (b * 2^e) below 2^MantBits
RECURSIVE Exponent(_, _, _)
Exponent(a, b, e) ==
    IF a < Pow(2, MantBits) * b * Pow(2, e) THEN e ELSE Exponent(a, b, e + 1)

\* the float nearest to a / b units (a >= 0, b > 0)
RoundFloat(a, b) ==
    LET e == Exponent(a, b, 0)
    IN RoundDiv(a, b * Pow(2, e)) * Pow(2, e)

Abs(n) == IF n < 0 THEN 0 - n ELSE n
Sign(n) == IF n < 0 THEN 0 - 1 ELSE 1

\* x + y on floats
FloatAdd(x, y) == Sign(x + y) * RoundFloat(Abs(x + y), 1)

\* the position of the decimal point of a text, 0 if it has none
DotAt(s) == IF InList(".", s) THEN CHOOSE i \in 1..Len(s) : s[i] = "." ELSE 0

\* the parts of a decimal literal: sign, integer digits, fraction digits
Unsigned(s) ==
    LET t == Strip(s)
    IN IF t # <<>> /\ Head(t) \in {"+", "-"} THEN Tail(t) ELSE t
IntDigits(s) ==
    LET u == Unsigned(s)
    IN IF DotAt(u) = 0 THEN u ELSE SubSeq(u, 1, DotAt(u) - 1)
FracDigits(s) ==
    LET u == Unsigned(s)
    IN IF DotAt(u) = 0 THEN <<>> ELSE SubSeq(u, DotAt(u) + 1, Len(u))
AllDigits(s) == \A i \in 1..Len(s) : IsDigit(s[i])

\* float(text) accepts a decimal literal: optional sign, digits with at most
\* one point and at least one digit; other text raises ValueError
CanParseFloat(s) ==
    /\ AllDigits(IntDigits(s)) /\ AllDigits(FracDigits(s))
    /\ IntDigits(s) \o FracDigits(s) # <<>>

ParseFloat(s) ==
    LET num == DigitsValue(IntDigits(s) \o FracDigits(s))
        den == Pow(10, Len(FracDigits(s)))
        neg == Strip(s) # <<>> /\ Head(Strip(s)) = "-"
    IN (IF neg THEN 0 - 1 ELSE 1) * RoundFloat(num * Pow(2, FracBits), den)

\* Faulty variant of FieldOrZero: a missing field has no default, and what
\* is read in its place does not convert.
FieldRequired(v) ==
    IF v = Absent THEN <<"K", "e", "y", "E", "r", "r", "o", "r">>
    ELSE OrStr(v, <<"0">>)

\* plan.get(key, "0") or "0": a missing, None or empty field reads as "0"
FieldOrZero(v) == OrStr(Get(v, Str(<<"0">>)), <<"0">>)

ZeroAggregate ==
    [total_premiums |-> 0, total_brokerage_fees |-> 0,
     total_people_covered |-> 0, plans |-> <<>>]

\* one pass of `for plan in year_data` on the running aggregate; a field
\* that does not parse raises ValueError
AggregatePlan(result, plan) ==
    IF IsRaised(result) THEN result
    ELSE IF ~CanParseFloat(FieldOrZero(plan.totalCharges)) THEN Raised("ValueError")
    ELSE IF ~CanParseFloat(FieldOrZero(plan.brokerCommission)) THEN Raised("ValueError")
    ELSE IF ~CanParseInt(FieldOrZero(plan.personsCovered)) THEN Raised("ValueError")
    ELSE
        LET premiums == ParseFloat(FieldOrZero(plan.totalCharges))
            brokerage == ParseFloat(FieldOrZero(plan.brokerCommission))
            people == ParseInt(FieldOrZero(plan.personsCovered))
            acc == result[2]
        IN Returned(
           [total_premiums |-> FloatAdd(acc.total_premiums, premiums),
            total_brokerage_fees |-> FloatAdd(acc.total_brokerage_fees, brokerage),
            total_people_covered |-> acc.total_people_covered + people,
            plans |-> Append(acc.plans,
                [benefit_type |-> Get(plan.benefitType, Str(<<>>)),
                 carrier_name |-> Get(plan.carrierName, Str(<<>>)),
                 premiums |-> premiums,
                 brokerage_fees |-> brokerage,
                 people_covered |-> people])])

RECURSIVE AggregatePlans(_)
AggregatePlans(year_data) ==
    IF year_data = <<>> THEN Returned(ZeroAggregate)
    ELSE AggregatePlan(AggregatePlans(SubSeq(year_data, 1, Len(year_data) - 1)),
                       year_data[Len(year_data)])

\* preferred_year in schedule_a_details
HasYear(details, year) == IsStr(year) /\ year[2] \in DOMAIN details

\* Faulty variant of aggregate_schedule_a_data: the year is looked up
\* without the membership test, so a missing year raises KeyError.
aggregate_schedule_a_data_unguarded(details, year) ==
    IF ~HasYear(details, year) THEN Raised("KeyError")
    ELSE AggregatePlans(details[year[2]])

aggregate_schedule_a_data(details, year) ==
    IF ~HasYear(details, year) THEN Returned(ZeroAggregate)
    ELSE AggregatePlans(details[year[2]])

----------------------------------------------------------------------------
(* process_data.py: get_total_participants, process_company_data *)

\* a dict value and a list value
Dict(d) == <<"dict", d>>
List(l) == <<"list", l>>

\* company.get("scheduleA", {}) and company.get("form5500", {}): the empty
\* dict has none of the keys read from it
NoScheduleA == [details |-> Absent]
NoForm5500 == [years |-> Absent, records |-> Absent]

UnknownCompany ==
    <<"U", "n", "k", "n", "o", "w", "n", " ", "C", "o", "m", "p", "a", "n", "y">>

\* list(d.keys()); get_preferred_year sorts what it is given
RECURSIVE KeyList(_)
KeyList(keys) ==
    IF keys = {} THEN <<>>
    ELSE LET k == CHOOSE x \in keys : TRUE IN <<k>> \o KeyList(keys \ {k})

\* the loop of get_total_participants: None and 0 are not added
RECURSIVE SumParticipants(_)
SumParticipants(year_records) ==
    IF year_records = <<>> THEN 0
    ELSE LET participants == Get(Head(year_records).active_participants, IntV(0))
         IN (IF participants = NoneV THEN 0 ELSE participants[2])
            + SumParticipants(Tail(year_records))

get_total_participants(form5500_records, data_year) ==
    IF data_year[2] \notin DOMAIN form5500_records THEN 0
    ELSE SumParticipants(form5500_records[data_year[2]])

\* lines 111-113: the year -> plans mapping of a company
ScheduleADetails(company) ==
    Get(Get(company.scheduleA, Dict(NoScheduleA))[2].details, Dict(<<>>))[2]

\* Faulty variant of SelectYear: the Form 5500 years are used whenever the
\* company has any.
SelectYearFormFirst(company) ==
    LET form5500_years ==
            Get(Get(company.form5500, Dict(NoForm5500))[2].years, List(<<>>))[2]
    IN IF form5500_years # <<>> THEN get_preferred_year(form5500_years)
       ELSE get_preferred_year(KeyList(DOMAIN ScheduleADetails(company)))

\* lines 113-124: preferred_year, from the Schedule A years and, when
\* that gives None, from the Form 5500 years
SelectYear(company) ==
    LET data_year == get_preferred_year(KeyList(DOMAIN ScheduleADetails(company)))
        form5500_years ==
            Get(Get(company.form5500, Dict(NoForm5500))[2].years, List(<<>>))[2]
    IN IF data_year # NoneV THEN data_year
       ELSE IF form5500_years # <<>> THEN get_preferred_year(form5500_years)
       ELSE data_year

\* lines 139-152: the participants total and the returned dict
CompanyRecord(company, data_year, has_data, aggregated_data) ==
    LET form5500_records ==
            Get(Get(company.form5500, Dict(NoForm5500))[2].records, Dict(<<>>))[2]
        total_participants ==
            IF IsStr(data_year)
            THEN get_total_participants(form5500_records, data_year) ELSE 0
    IN [company_name |-> Get(company.companyName, Str(UnknownCompany)),
        data_year |-> data_year,
        has_data |-> has_data,
        total_premiums |-> aggregated_data.total_premiums,
        total_brokerage_fees |-> aggregated_data.total_brokerage_fees,
        total_people_covered |-> aggregated_data.total_people_covered,
        total_participants |-> total_participants,
        plans |-> aggregated_data.plans]

\* Faulty variant of process_company_data: a plan list that does not
\* aggregate is reported as a company without data.
process_company_data_tolerant(company) ==
    LET details == ScheduleADetails(company)
        data_year == SelectYear(company)
        aggregated_data == aggregate_schedule_a_data(details, data_year)
    IN IF IsRaised(data_year) THEN data_year
       ELSE IF HasYear(details, data_year) /\ ~IsRaised(aggregated_data)
            THEN Returned(CompanyRecord(company, data_year, TRUE, aggregated_data[2]))
       ELSE Returned(CompanyRecord(company, data_year, FALSE, ZeroAggregate))

\* the result of one company, or the exception that leaves the function
process_company_data(company) ==
    LET details == ScheduleADetails(company)
        data_year == SelectYear(company)
        aggregated_data == aggregate_schedule_a_data(details, data_year)
    IN IF IsRaised(data_year) THEN data_year
       ELSE IF HasYear(details, data_year)
            THEN IF IsRaised(aggregated_data) THEN aggregated_data
                 ELSE Returned(CompanyRecord(company, data_year, TRUE, aggregated_data[2]))
       ELSE Returned(CompanyRecord(company, data_year, FALSE, ZeroAggregate))

----------------------------------------------------------------------------
(* process_data.py: process_pe_data *)

\* code points of the characters a data year is written with
CharCode(c) == IF c = "-" THEN 45 ELSE 48 + DigitVal(c)

\* a < b as Python compares str values
RECURSIVE StrLess(_, _)
StrLess(a, b) ==
    IF b = <<>> THEN FALSE
    ELSE IF a = <<>> THEN TRUE
    ELSE IF Head(a) # Head(b) THEN CharCode(Head(a)) < CharCode(Head(b))
    ELSE StrLess(Tail(a), Tail(b))

\* lines 193-196: the data years of the processed companies
YearsFound(processed) ==
    { processed[i].data_year[2] :
        i \in {j \in 1..Len(processed) : processed[j].data_year # NoneV} }

\* Faulty variant of MostRecentYear: the numerically greatest year found.
MostRecentYearGreatest(processed) ==
    LET years_found == YearsFound(processed)
    IN IF years_found = {} THEN Text2023
       ELSE CHOOSE y \in years_found :
                \A x \in years_found : ParseInt(x) <= ParseInt(y)

\* lines 189-207: most_recent_year of the summary
MostRecentYear(processed) ==
    LET years_found == YearsFound(processed)
    IN IF years_found = {} THEN Text2023
       ELSE IF Text2023 \in years_found THEN Text2023
       ELSE IF Text2022 \in years_found THEN Text2022
       ELSE CHOOSE y \in years_found :
                \A x \in years_found : x = y \/ StrLess(x, y)

\* lines 209-219: the document written to the output file
ProcessedData(raw, processed, with_data) ==
    [timestamp |-> Get(raw.timestamp, NoneV),
     summary |-> [total_companies |-> Len(processed),
                  companies_with_data |-> with_data,
                  most_recent_year |-> Str(MostRecentYear(processed))],
     companies |-> processed]

----------------------------------------------------------------------------
(* Idle values of the variables a specification does not use *)

YearIdle == available_years = <<>> /\ preferred_year = NoneV
IndexIdle == rows = <<>> /\ idx_by_begin = <<>> /\ idx_by_end = <<>>
ClassifyIdle == header_row = <<>> /\ verdict = <<>>
MainIdle == args = <<>> /\ plans = <<>> /\ skipped = "" /\ overall = ""
AggIdle == schedule_a_details = <<>> /\ agg_year = <<>> /\ aggregated = <<>>
PEIdle ==
    /\ input_file = <<>> /\ raw_data = <<>> /\ processed_companies = <<>>
    /\ companies_with_data = 0 /\ output_file = <<>>

YearVars == <<available_years, preferred_year>>
IndexVars == <<rows, idx_by_begin, idx_by_end>>
ClassifyVars == <<header_row, verdict>>
MainVars == <<args, plans, skipped, overall>>
AggVars == <<schedule_a_details, agg_year, aggregated>>
PEVars == <<input_file, raw_data, processed_companies, companies_with_data,
            output_file>>

----------------------------------------------------------------------------
(* Specification of the year preference resolver *)

RECURSIVE SeqsUpTo(_, _)
SeqsUpTo(S, n) ==
    IF n = 0 THEN {<<>>}
    ELSE LET shorter == SeqsUpTo(S, n - 1)
         IN shorter \cup {Append(s, x) : s \in {t \in shorter : Len(t) = n - 1}, x \in S}

YearInit ==
    /\ pc = "year_call"
    /\ available_years \in SeqsUpTo(YearStrings, MaxYears)
    /\ preferred_year = NoneV
    /\ IndexIdle /\ ClassifyIdle /\ MainIdle /\ AggIdle /\ PEIdle

CallGetPreferredYear ==
    /\ pc = "year_call"
    /\ preferred_year' = get_preferred_year(available_years)
    /\ pc' = "year_done"
    /\ UNCHANGED <<available_years, IndexVars, ClassifyVars, MainVars, AggVars, PEVars>>

YearNext == CallGetPreferredYear

SpecYear == YearInit /\ [][YearNext]_vars

----------------------------------------------------------------------------
(* Properties of the year preference resolver *)

\* the years the argument list holds, as integers
YearValues == {ParseInt(available_years[i]) : i \in 1..Len(available_years)}
YearReturned == pc = "year_done"
SetMax(S) == CHOOSE m \in S : \A x \in S : x <= m
ReturnedInt == ParseInt(preferred_year[2])

\* C1: whenever the list holds 2023 the call returns "2023", whatever else
\* (2024, later years, duplicates, any order) the list holds.
C1_Returns2023 ==
    (YearReturned /\ Year2023 \in YearValues) => preferred_year = Str(Text2023)

\* C1 witness: a list holding 2023 together with 2024 and a later year has
\* been resolved to "2023".
C1_Witness ==
    /\ YearReturned
    /\ {Year2023, Year2024, Year2024 + 1} \subseteq YearValues
    /\ available_years[1] # Text2023
    /\ preferred_year = Str(Text2023)

\* C2: whenever the list holds 2022 and not 2023 the call returns "2022".
C2_Returns2022 ==
    (YearReturned /\ Year2022 \in YearValues /\ Year2023 \notin YearValues)
        => preferred_year = Str(Text2022)

\* C2 witness: the list 2021, 2022, 2024 has been resolved to "2022".
C2_Witness ==
    /\ YearReturned
    /\ available_years = <<Text2021, Text2022, Text2024>>
    /\ preferred_year = Str(Text2022)

\* the list holds 2024 and at least one other year
Has2024AndAnother == Year2024 \in YearValues /\ YearValues # {Year2024}

\* C3 as stated: a list holding 2024 and another year resolves to the
\* greatest year of the list that is not 2024.
C3_Original ==
    (YearReturned /\ Has2024AndAnother)
        => (IsStr(preferred_year) /\ ReturnedInt = SetMax(YearValues \ {Year2024}))

\* 2023 or 2022 is in the list together with a year later than 2024
PreferredBeatsLater ==
    /\ (Year2023 \in YearValues \/ Year2022 \in YearValues)
    /\ \E y \in YearValues : y > Year2024

\* C3 amended: a list holding 2024 and another year resolves to the greatest
\* year that is not 2024, unless it holds 2023 or 2022 together with a year
\* later than 2024; then it resolves to 2023 if present and to 2022 otherwise.
C3_Amended ==
    (YearReturned /\ Has2024AndAnother)
        => /\ IsStr(preferred_year)
           /\ ReturnedInt =
                IF ~PreferredBeatsLater THEN SetMax(YearValues \ {Year2024})
                ELSE IF Year2023 \in YearValues THEN Year2023
                ELSE Year2022

\* C3 witness: a list holding 2024, 2025 and 2021 (no 2022, no 2023) has been
\* resolved to 2025, the greatest year that is not 2024.
C3_Witness ==
    /\ YearReturned
    /\ YearValues = {Year2024, Year2024 + 1, Year2023 - 2}
    /\ ReturnedInt = Year2024 + 1

\* C4 as stated: no year is returned exactly for the empty list, and for a
\* non-empty list the returned string is one of the argument's strings.
C4_ReturnsAnInputString ==
    YearReturned =>
        /\ (preferred_year = NoneV) <=> (available_years = <<>>)
        /\ available_years # <<>> =>
              /\ IsStr(preferred_year)
              /\ InList(preferred_year[2], available_years)

----------------------------------------------------------------------------
(* Specification of the Schedule A index build *)

IndexInit ==
    /\ pc = "index"
    /\ rows = <<>>
    /\ idx_by_begin = EmptyIndex
    /\ idx_by_end = EmptyIndex
    /\ YearIdle /\ ClassifyIdle /\ MainIdle /\ AggIdle /\ PEIdle

\* one pass of `for r in reader`
IndexRow(r) ==
    /\ pc = "index"
    /\ Len(rows) < MaxRows
    /\ LET idx == IndexRowInto(<<idx_by_begin, idx_by_end>>, r)
       IN idx_by_begin' = idx[1] /\ idx_by_end' = idx[2]
    /\ rows' = Append(rows, r)
    /\ UNCHANGED <<pc, YearVars, ClassifyVars, MainVars, AggVars, PEVars>>

\* the reader is exhausted: return idx_by_begin, idx_by_end
IndexReturn ==
    /\ pc = "index"
    /\ pc' = "index_done"
    /\ UNCHANGED <<IndexVars, YearVars, ClassifyVars, MainVars, AggVars, PEVars>>

IndexNext == (\E r \in SchedARows : IndexRow(r)) \/ IndexReturn

SpecIndex == IndexInit /\ [][IndexNext]_vars

----------------------------------------------------------------------------
(* Properties of the Schedule A index build *)

Permuted(rs, p) == [i \in 1..Len(rs) |-> rs[p[i]]]
InsertAt(rs, j, r) == SubSeq(rs, 1, j - 1) \o <<r>> \o SubSeq(rs, j, Len(rs))
BuiltIndex == <<idx_by_begin, idx_by_end>>

\* C9: the indexes built from the rows read are the indexes built from every
\* permutation of those rows, and from those rows with any one of them
\* repeated at any position: same keys, same flags.
C9_OrderIndependentIdempotent ==
    /\ \A p \in Permutations(1..Len(rows)) :
          build_schedA_index(Permuted(rows, p)) = BuiltIndex
    /\ \A i \in 1..Len(rows) : \A j \in 1..(Len(rows) + 1) :
          build_schedA_index(InsertAt(rows, j, rows[i])) = BuiltIndex

\* C9 witness: a finished build over rows that hit one key with different
\* flags (health only, then stop-loss only), leaving both flags set.
C9_Witness ==
    /\ pc = "index_done"
    /\ Len(rows) >= 2
    /\ is_true(rows[1].WLFR_BNFT_HEALTH_IND) /\ ~is_true(rows[1].WLFR_BNFT_STOP_LOSS_IND)
    /\ ~is_true(rows[2].WLFR_BNFT_HEALTH_IND) /\ is_true(rows[2].WLFR_BNFT_STOP_LOSS_IND)
    /\ <<Ein12, Plan001, Text2023>> \in DOMAIN idx_by_begin
    /\ idx_by_begin[<<Ein12, Plan001, Text2023>>] = [health |-> TRUE, stop |-> TRUE]

----------------------------------------------------------------------------
(* Specification of classify_plan over one header row and a built index *)

HRow(sponsor, ein, pn, twbc, fby, fte, bi, bg, fi, fg, att, cnt) ==
    [SPONSOR_DFE_NAME |-> sponsor, PLAN_NAME |-> Absent,
     SPONS_DFE_EIN |-> ein, SPONS_DFE_PN |-> pn,
     TYPE_WELFARE_BNFT_CODE |-> twbc,
     FORM_PLAN_YEAR_BEGIN_DATE |-> fby, FORM_TAX_PRD |-> fte,
     BENEFIT_INSURANCE_IND |-> bi, BENEFIT_GEN_ASSET_IND |-> bg,
     FUNDING_INSURANCE_IND |-> fi, FUNDING_GEN_ASSET_IND |-> fg,
     SCH_A_ATTACHED_IND |-> att, NUM_SCH_A_ATTACHED_CNT |-> cnt]

\* the Schedule A file rows of the classifier runs: employer 12, plan 001,
\* begin year 2023, end year 2024, every combination of the two indicators
FileRows == {r \in SchedARows : r.SCH_A_PLAN_YEAR_END_DATE = Str(Date2024Dec)}
ScheduleAFiles == SeqsUpTo(FileRows, MaxFileRows)

Code4A == <<"4", "A", "4", "B">>
Code4B == <<"4", "B">>
SponsorAB == <<"A", "B", " ">>
Flag01 == {Str(<<"1">>), Absent}

\* header rows: with and without an employer id, begin dates that hit the
\* index (plain and with a leading blank) or are too short, end dates in
\* 2023, 2024 or missing, all sixteen settings of the four header flags, and
\* the Schedule A attached indicator and count set, unset or None
ClassifyHeaderRows ==
    { HRow(Str(SponsorAB), ein, Str(Plan001), Str(Code4A), fby, fte, bi, bg, fi, fg, att, cnt) :
        ein \in {Str(Ein12), NoneV},
        fby \in {Str(Date2023Jan), Str(<<" ">> \o Date2023Jan), Str(DateShort)},
        fte \in {Str(Date2023Dec), Str(Date2024Dec), Absent},
        bi \in Flag01, bg \in Flag01, fi \in Flag01, fg \in Flag01,
        att \in {Str(<<"1">>), Str(<<"0">>)},
        cnt \in {Str(<<"0">>), Str(<<"2">>), NoneV} }

ClassifyInit ==
    /\ pc = "classify_index"
    /\ rows \in ScheduleAFiles
    /\ idx_by_begin = EmptyIndex
    /\ idx_by_end = EmptyIndex
    /\ header_row \in ClassifyHeaderRows
    /\ verdict = <<>>
    /\ YearIdle /\ MainIdle /\ AggIdle /\ PEIdle

\* sa_begin_idx, sa_end_idx = build_schedA_index(args.scheda)
ClassifyBuildIndex ==
    /\ pc = "classify_index"
    /\ LET idx == build_schedA_index(rows)
       IN idx_by_begin' = idx[1] /\ idx_by_end' = idx[2]
    /\ pc' = "classify_call"
    /\ UNCHANGED <<rows, ClassifyVars, YearVars, MainVars, AggVars, PEVars>>

CallClassifyPlan ==
    /\ pc = "classify_call"
    /\ verdict' = classify_plan(header_row, idx_by_begin, idx_by_end)
    /\ pc' = "classified"
    /\ UNCHANGED <<header_row, IndexVars, YearVars, MainVars, AggVars, PEVars>>

ClassifyNext == ClassifyBuildIndex \/ CallClassifyPlan

SpecClassify == ClassifyInit /\ [][ClassifyNext]_vars

----------------------------------------------------------------------------
(* Properties of classify_plan *)

Classified == pc = "classified"
\* the Coverage Flags of the classified row: some Schedule A row read has the
\* header's stripped employer id and plan number, sets the indicator, and its
\* begin year is the header's begin year or its end year the header's end year
RowSets(r, flag) ==
    is_true(Get(IF flag = "health" THEN r.WLFR_BNFT_HEALTH_IND
                ELSE r.WLFR_BNFT_STOP_LOSS_IND, Str(<<>>)))
CoverageFlag(flag) ==
    \E i \in 1..Len(rows) :
        LET r == rows[i]
            m == Meta(header_row)
        IN /\ IsStr(r.SCH_A_EIN) /\ IsStr(r.SCH_A_PLAN_NUM)
           /\ m.ein # <<>> /\ m.plan_number # <<>>
           /\ Strip(r.SCH_A_EIN[2]) = m.ein
           /\ Strip(r.SCH_A_PLAN_NUM[2]) = m.plan_number
           /\ RowSets(r, flag)
           /\ \/ /\ Len(m.plan_year_begin) >= 4
                 /\ StartsWith(Strip(r.SCH_A_PLAN_YEAR_BEGIN_DATE[2]),
                               Prefix(m.plan_year_begin, 4))
              \/ /\ Len(m.plan_year_end) >= 4
                 /\ StartsWith(Strip(r.SCH_A_PLAN_YEAR_END_DATE[2]),
                               Prefix(m.plan_year_end, 4))
HeaderFlag(name) == header_row[name] = Str(<<"1">>)
InsuranceFlag == HeaderFlag("BENEFIT_INSURANCE_IND") \/ HeaderFlag("FUNDING_INSURANCE_IND")
GeneralAssetsFlag == HeaderFlag("BENEFIT_GEN_ASSET_IND") \/ HeaderFlag("FUNDING_GEN_ASSET_IND")
\* the attached indicator is set, or the attached count is neither 0 nor
\* empty nor missing (a None count reads as the text None, hence as attached)
ScheduleAAttached ==
    \/ header_row.SCH_A_ATTACHED_IND = Str(<<"1">>)
    \/ header_row.NUM_SCH_A_ATTACHED_CNT \notin {Str(<<"0">>), Str(<<>>), Absent}

\* C5: a plan whose Coverage Flags show health is labelled Insured whatever
\* the stop-loss flag, the four header flags and the attached indicator and
\* count are; the header insurance flags only append the second reason.
C5_HealthIsInsured ==
    (Classified /\ CoverageFlag("health")) =>
        /\ verdict[1] = LabelInsured
        /\ verdict[2] =
             IF InsuranceFlag
             THEN <<"Schedule A shows health/medical coverage",
                    "Header insurance arrangement flags present">>
             ELSE <<"Schedule A shows health/medical coverage">>

\* C5 witness: a row with health and stop-loss coverage, a general-assets
\* flag, an insurance flag and a Schedule A attached has been labelled Insured.
C5_Witness ==
    /\ Classified
    /\ CoverageFlag("health") /\ CoverageFlag("stop")
    /\ GeneralAssetsFlag /\ InsuranceFlag /\ ScheduleAAttached
    /\ verdict[1] = LabelInsured

\* C6: the label is the label of the first rule that matches, in the order
\* health, stop-loss, general assets (split on Schedule A attached),
\* insurance, Schedule A attached, none.
C6_FirstMatchingRule ==
    Classified =>
        verdict[1] =
            IF CoverageFlag("health") THEN LabelInsured
            ELSE IF CoverageFlag("stop") THEN LabelStopLoss
            ELSE IF GeneralAssetsFlag /\ ScheduleAAttached THEN LabelLikelySelfFundedSchedA
            ELSE IF GeneralAssetsFlag THEN LabelSelfFunded
            ELSE IF InsuranceFlag THEN LabelLikelyInsured
            ELSE IF ScheduleAAttached THEN LabelIndeterminate
            ELSE LabelLikelySelfFundedAbsence

\* C6 witness: a row with no coverage flags and no general-assets flag but an
\* insurance flag and a Schedule A attached has been labelled by the
\* insurance rule, which precedes the attached rule.
C6_Witness ==
    /\ Classified
    /\ ~CoverageFlag("health") /\ ~CoverageFlag("stop") /\ ~GeneralAssetsFlag
    /\ InsuranceFlag /\ ScheduleAAttached
    /\ verdict[1] = LabelLikelyInsured

----------------------------------------------------------------------------
(* Specification of the classifier's main *)

CompanyQuery == <<" ", "a", "B">>
SponsorABC == <<"A", "B", "C">>
SponsorXY == <<"X", "Y">>
One == Str(<<"1">>)

\* header rows of the classifier runs
MainHeaderRows ==
    \* employer 12, plan 001, 2023 to 2024, with and without the 4A code
    { HRow(Str(SponsorAB), Str(Ein12), Str(Plan001), Str(code), Str(Date2023Jan),
           Str(Date2024Dec), Absent, Absent, Absent, Absent, Absent, Absent) :
        code \in {Code4A, Code4B} }
    \cup
    \* the same plan, begin date with a leading blank, no end date, no 4A code
    { HRow(Str(SponsorAB), Str(Ein12), Str(Plan001), Str(Code4B),
           Str(<<" ">> \o Date2023Jan), Absent,
           Absent, Absent, Absent, Absent, Absent, Absent) }
    \cup
    \* 4A plans without an employer id: general assets, insurance, attached
    { HRow(Str(SponsorAB), NoneV, Str(Plan001), Str(Code4A), Str(Date2023Jan),
           Str(Date2023Dec), f[1], f[2], Absent, Absent, f[3], Absent) :
        f \in { <<Absent, One, Absent>>, <<Absent, One, One>>,
                <<One, Absent, Absent>>, <<Absent, Absent, One>> } }
    \cup
    \* another sponsor holding the query as a substring; an unrelated sponsor;
    \* a plan of a later year
    { HRow(Str(SponsorABC), Str(Ein12), Str(Plan001), Str(Code4A), Str(Date2023Jan),
           Str(Date2023Dec), One, Absent, Absent, Absent, Absent, Absent),
      HRow(Str(SponsorXY), Str(Ein12), Str(Plan001), Str(Code4A), Str(Date2023Jan),
           Str(Date2023Dec), Absent, Absent, Absent, Absent, Absent, Absent),
      HRow(Str(SponsorAB), Str(Ein12), Str(Plan001), Str(Code4A), Str(DateShort),
           Str(Date2024Dec), Absent, Absent, Absent, Absent, Absent, Absent) }

MainInit ==
    /\ pc = "main_index"
    /\ rows \in ScheduleAFiles
    /\ idx_by_begin = EmptyIndex
    /\ idx_by_end = EmptyIndex
    /\ args \in [company : {CompanyQuery}, exact : BOOLEAN, year : {NoneV, IntV(Year2023)}]
    /\ plans = <<>>
    /\ skipped = ""
    /\ overall = ""
    /\ header_row = <<>>
    /\ verdict = <<>>
    /\ YearIdle /\ AggIdle /\ PEIdle

\* sa_begin_idx, sa_end_idx = build_schedA_index(args.scheda)
MainBuildIndex ==
    /\ pc = "main_index"
    /\ LET idx == build_schedA_index(rows)
       IN idx_by_begin' = idx[1] /\ idx_by_end' = idx[2]
    /\ pc' = "main_headers"
    /\ UNCHANGED <<rows, ClassifyVars, MainVars, YearVars, AggVars, PEVars>>

\* one pass of the loop over the header file
MainHeaderRow(r) ==
    /\ pc = "main_headers"
    /\ Len(plans) < MaxPlans
    /\ header_row' = r
    /\ IF ~CompanyMatches(r, args) THEN
           skipped' = "company" /\ UNCHANGED <<plans, verdict>>
       ELSE IF ~YearMatches(r, args) THEN
           skipped' = "year" /\ UNCHANGED <<plans, verdict>>
       ELSE IF ~FilterHealth(r, idx_by_begin, idx_by_end) THEN
           skipped' = "no 4A or SA health" /\ UNCHANGED <<plans, verdict>>
       ELSE
           /\ skipped' = ""
           /\ verdict' = classify_plan(r, idx_by_begin, idx_by_end)
           /\ plans' = Append(plans, PlanEntry(r, idx_by_begin, idx_by_end))
    /\ UNCHANGED <<pc, args, overall, IndexVars, YearVars, AggVars, PEVars>>

\* the header file is exhausted with no plan kept: NO MEDICAL PLANS FOUND
MainNoPlans ==
    /\ pc = "main_headers"
    /\ plans = <<>>
    /\ pc' = "main_no_plans"
    /\ UNCHANGED <<IndexVars, ClassifyVars, MainVars, YearVars, AggVars, PEVars>>

\* the header file is exhausted: the overall label is computed and printed
MainRollup ==
    /\ pc = "main_headers"
    /\ plans # <<>>
    /\ overall' = Rollup([i \in 1..Len(plans) |-> plans[i].classification])
    /\ pc' = "main_done"
    /\ UNCHANGED <<args, plans, skipped, IndexVars, ClassifyVars, YearVars, AggVars, PEVars>>

MainNext ==
    \/ MainBuildIndex
    \/ \E r \in MainHeaderRows : MainHeaderRow(r)
    \/ MainNoPlans
    \/ MainRollup

SpecMain == MainInit /\ [][MainNext]_vars

----------------------------------------------------------------------------
(* Properties of the classifier's main *)

\* a header row has been handled and it passed the company and year filters
PassedCompanyAndYear == header_row # <<>> /\ skipped \notin {"company", "year"}
\* the handled row was classified and appended to plans
Reported == header_row # <<>> /\ skipped = ""
\* health, as classify_plan resolves it for the handled row
ClassifierHealth == ResolveFlags(header_row, idx_by_begin, idx_by_end).health
Has4A == has_health_4A(Get(header_row.TYPE_WELFARE_BNFT_CODE, Str(<<>>)))

\* C7 as stated: a header row that passed the company and year filters is
\* reported exactly if its type code holds 4A or the Coverage Flags
\* classify_plan resolves for it show health.
C7_FilterAgreesWithClassifier ==
    PassedCompanyAndYear => (Reported <=> (Has4A \/ ClassifierHealth))

Labels == [i \in 1..Len(plans) |-> plans[i].classification]
AnyLabel(P(_)) == \E i \in 1..Len(plans) : P(Labels[i])
EveryLabel(P(_)) == \A i \in 1..Len(plans) : P(Labels[i])
BeginsSelfFunded(c) ==
    StartsWith(c, TextSelfFunded) \/ StartsWith(c, TextLikelySelfFunded)
InsuredOrLikely(c) == c = LabelInsured \/ StartsWith(c, TextLikelyInsured)

\* C8: a finished run with plans prints Self-funded (at least one plan) if a
\* label begins with Self-funded or Likely self-funded, else Insured if every
\* label is Insured or begins with Likely insured, else Mixed/Indeterminate;
\* a run that kept no plan ends in the no-plans outcome with no overall label.
C8_Rollup ==
    /\ pc = "main_done" =>
          /\ plans # <<>>
          /\ overall =
               IF AnyLabel(BeginsSelfFunded) THEN "Self-funded (at least one plan)"
               ELSE IF EveryLabel(InsuredOrLikely) THEN "Insured"
               ELSE "Mixed/Indeterminate"
    /\ pc = "main_no_plans" => (plans = <<>> /\ overall = "")

\* C8 witness: a finished run that reported an Insured plan and a plan
\* labelled Likely self-funded, rolled up to Self-funded (at least one plan).
C8_Witness ==
    /\ pc = "main_done"
    /\ Len(plans) = 2
    /\ Labels[1] = LabelInsured
    /\ Labels[2] = LabelLikelySelfFundedSchedA
    /\ overall = "Self-funded (at least one plan)"

----------------------------------------------------------------------------
(* Specification of aggregate_schedule_a_data *)

Plan(charges, commission, persons) ==
    [benefitType |-> Str(<<"M">>), carrierName |-> Absent,
     totalCharges |-> charges, brokerCommission |-> commission,
     personsCovered |-> persons]

Text(a, b) == Str(<<a, ".", b>>)

\* plan records: premiums missing, None, empty, decimal or not a number;
\* commissions empty or decimal; counts missing, whole or not whole
PlanRecords ==
    { Plan(c, Str(<<>>), Str(<<"1", "2">>)) :
        c \in {Absent, NoneV, Str(<<>>), Text("0", "1"), Text("0", "2"),
               Text("2", "5"), Str(<<"a", "b", "c">>)} }
    \cup { Plan(Text("0", "3"), Text("0", "3"), p) :
             p \in {Absent, Str(<<"3">>), Text("1", "5")} }

YearPlanLists == SeqsUpTo(PlanRecords, MaxYearPlans)

\* year -> plans mappings: empty, 2023 only, 2022 only, or both
DetailMappings ==
    {<<>>}
    \cup { (Text2023 :> l) : l \in YearPlanLists }
    \cup { (Text2022 :> <<Plan(Text("2", "5"), Str(<<>>), Absent)>>) }
    \cup { (Text2022 :> <<Plan(Text("2", "5"), Str(<<>>), Absent)>>) @@ (Text2023 :> l) :
             l \in YearPlanLists }

AggInit ==
    /\ pc = "agg_call"
    /\ schedule_a_details \in DetailMappings
    /\ agg_year \in {Str(Text2022), Str(Text2023), Str(Text2024)}
    /\ aggregated = <<>>
    /\ YearIdle /\ IndexIdle /\ ClassifyIdle /\ MainIdle /\ PEIdle

CallAggregate ==
    /\ pc = "agg_call"
    /\ aggregated' = aggregate_schedule_a_data(schedule_a_details, agg_year)
    /\ pc' = "agg_done"
    /\ UNCHANGED <<schedule_a_details, agg_year, YearVars, IndexVars, ClassifyVars, MainVars, PEVars>>

AggNext == CallAggregate

SpecAgg == AggInit /\ [][AggNext]_vars

----------------------------------------------------------------------------
(* Properties of aggregate_schedule_a_data *)

Aggregated == pc = "agg_done"
YearIsKey == agg_year[2] \in DOMAIN schedule_a_details

\* C10: called with a year that is not a key of the mapping (the empty
\* mapping included), the aggregator raises nothing and returns zero
\* premiums, zero fees, zero people and an empty plan list.
C10_AbsentYearIsZero ==
    (Aggregated /\ ~YearIsKey) =>
        /\ ~IsRaised(aggregated)
        /\ aggregated[2].total_premiums = 0
        /\ aggregated[2].total_brokerage_fees = 0
        /\ aggregated[2].total_people_covered = 0
        /\ aggregated[2].plans = <<>>

\* C10 witness: the aggregator has returned for a year that is not a key of
\* a mapping whose other years hold plans.
C10_Witness ==
    /\ Aggregated
    /\ ~YearIsKey
    /\ DOMAIN schedule_a_details = {Text2022, Text2023}
    /\ Len(schedule_a_details[Text2023]) = 2
    /\ aggregated = Returned(ZeroAggregate)

\* the aggregator has returned for the empty mapping
C10_WitnessEmptyMapping ==
    Aggregated /\ schedule_a_details = <<>> /\ aggregated = Returned(ZeroAggregate)

\* the plan list of the aggregated year, when the year is a key
YearData == schedule_a_details[agg_year[2]]
Chunk(a, b) == AggregatePlans(SubSeq(YearData, a, b))
\* every field of every plan of the aggregated year parses
WellFormed == ~IsRaised(AggregatePlans(YearData))

\* the figures kept for plan i are its parsed fields, blank or missing as 0
EntryOf(plan) ==
    [benefit_type |-> Get(plan.benefitType, Str(<<>>)),
     carrier_name |-> Get(plan.carrierName, Str(<<>>)),
     premiums |-> ParseFloat(FieldOrZero(plan.totalCharges)),
     brokerage_fees |-> ParseFloat(FieldOrZero(plan.brokerCommission)),
     people_covered |-> ParseInt(FieldOrZero(plan.personsCovered))]

\* C11 as stated: for every split of the year's plan list into two
\* consecutive chunks, the sums of the two chunks' premium, fee and people
\* totals are the totals of the whole list, the two retained plan lists
\* concatenated are the whole retained list, and that list holds one entry
\* per input plan, in input order.
C11_Additive ==
    (Aggregated /\ YearIsKey /\ WellFormed) =>
        /\ \A k \in 0..Len(YearData) :
             LET left == Chunk(1, k)[2]
                 right == Chunk(k + 1, Len(YearData))[2]
                 whole == aggregated[2]
             IN /\ FloatAdd(left.total_premiums, right.total_premiums)
                     = whole.total_premiums
                /\ FloatAdd(left.total_brokerage_fees, right.total_brokerage_fees)
                     = whole.total_brokerage_fees
                /\ left.total_people_covered + right.total_people_covered
                     = whole.total_people_covered
                /\ left.plans \o right.plans = whole.plans
        /\ aggregated[2].plans = [i \in 1..Len(YearData) |-> EntryOf(YearData[i])]

\* the part of C11 that does not add floats in two different groupings
C11_ExactPart ==
    (Aggregated /\ YearIsKey /\ WellFormed) =>
        /\ \A k \in 0..Len(YearData) :
             LET left == Chunk(1, k)[2]
                 right == Chunk(k + 1, Len(YearData))[2]
                 whole == aggregated[2]
             IN /\ left.total_people_covered + right.total_people_covered
                     = whole.total_people_covered
                /\ left.plans \o right.plans = whole.plans
        /\ aggregated[2].plans = [i \in 1..Len(YearData) |-> EntryOf(YearData[i])]

----------------------------------------------------------------------------
(* The flags of the index, row by row *)

\* row r carries an employer id and a plan number
Keyed(r) ==
    Strip(OrStr(r.SCH_A_EIN, <<>>)) # <<>> /\ Strip(OrStr(r.SCH_A_PLAN_NUM, <<>>)) # <<>>
\* the key row r contributes to: its id, plan number and the year prefix of
\* the named date
RowKey(r, date) ==
    <<Strip(OrStr(r.SCH_A_EIN, <<>>)), Strip(OrStr(r.SCH_A_PLAN_NUM, <<>>)),
      YearPrefix(Strip(OrStr(r[date], <<>>)))>>
\* some row read so far has key k on the named date and sets the indicator
SomeRowSets(k, date, ind) ==
    \E i \in 1..Len(rows) :
        Keyed(rows[i]) /\ RowKey(rows[i], date) = k /\ is_true(Get(rows[i][ind], Str(<<>>)))
\* every key with a year that some row read so far names, and every key held;
\* a date of fewer than four characters has no year prefix and names no key
KeysSeen(date, idx) ==
    {k \in {RowKey(rows[i], date) : i \in 1..Len(rows)} : k[3] # <<>>} \cup DOMAIN idx
FlagIsTrue(idx, k, flag) == k \in DOMAIN idx /\ idx[k][flag]

FlagsMatchRows ==
    /\ \A k \in KeysSeen("SCH_A_PLAN_YEAR_BEGIN_DATE", idx_by_begin) :
          /\ FlagIsTrue(idx_by_begin, k, "health")
               <=> SomeRowSets(k, "SCH_A_PLAN_YEAR_BEGIN_DATE", "WLFR_BNFT_HEALTH_IND")
          /\ FlagIsTrue(idx_by_begin, k, "stop")
               <=> SomeRowSets(k, "SCH_A_PLAN_YEAR_BEGIN_DATE", "WLFR_BNFT_STOP_LOSS_IND")
    /\ \A k \in KeysSeen("SCH_A_PLAN_YEAR_END_DATE", idx_by_end) :
          /\ FlagIsTrue(idx_by_end, k, "health")
               <=> SomeRowSets(k, "SCH_A_PLAN_YEAR_END_DATE", "WLFR_BNFT_HEALTH_IND")
          /\ FlagIsTrue(idx_by_end, k, "stop")
               <=> SomeRowSets(k, "SCH_A_PLAN_YEAR_END_DATE", "WLFR_BNFT_STOP_LOSS_IND")

\* a flag that is true stays true over the step
FlagsKept(idx, idxNext) ==
    \A k \in DOMAIN idx : \A flag \in {"health", "stop"} :
        idx[k][flag] => FlagIsTrue(idxNext, k, flag)

\* the step read a row without an employer id or without a plan number
ReadUnkeyedRow == Len(rows') = Len(rows) + 1 /\ ~Keyed(rows'[Len(rows')])

\* C12: at every point of the build a flag of an entry is true exactly if
\* some row read so far with that employer id, plan number and year prefix
\* set the indicator; no step resets a flag that is true; a row without an
\* employer id or plan number leaves both indexes as they were.
C12_FlagsFollowRows ==
    /\ []FlagsMatchRows
    /\ [][/\ FlagsKept(idx_by_begin, idx_by_begin')
          /\ FlagsKept(idx_by_end, idx_by_end')
          /\ ReadUnkeyedRow =>
               (idx_by_begin' = idx_by_begin /\ idx_by_end' = idx_by_end)]_vars

\* C12 witness: a row set health on a key, a later row with the same key and
\* no health indicator and a row without an employer id were read, and the
\* health flag of the key is still true.
C12_Witness ==
    /\ Len(rows) = 3
    /\ Keyed(rows[1]) /\ is_true(rows[1].WLFR_BNFT_HEALTH_IND)
    /\ Keyed(rows[2]) /\ ~is_true(rows[2].WLFR_BNFT_HEALTH_IND)
    /\ RowKey(rows[2], "SCH_A_PLAN_YEAR_BEGIN_DATE")
         = RowKey(rows[1], "SCH_A_PLAN_YEAR_BEGIN_DATE")
    /\ ~Keyed(rows[3])
    /\ FlagIsTrue(idx_by_begin, RowKey(rows[1], "SCH_A_PLAN_YEAR_BEGIN_DATE"), "health")
    /\ ~FlagIsTrue(idx_by_begin, RowKey(rows[1], "SCH_A_PLAN_YEAR_BEGIN_DATE"), "stop")

----------------------------------------------------------------------------
(* Specification of process_pe_data *)

GoodPlan == Plan(Text("1", "5"), Text("0", "3"), Str(<<"3">>))
\* plans with a premium, a fee or a count that is not a number
BadPremiumPlan == Plan(Str(<<"a", "b", "c">>), Text("0", "3"), Str(<<"3">>))
BadFeePlan == Plan(Text("1", "5"), Str(<<"a", "b", "c">>), Str(<<"3">>))
BadCountPlan == Plan(Text("1", "5"), Text("0", "3"), Str(<<"a", "b", "c">>))
\* a plan record with none of its fields
EmptyPlan ==
    [benefitType |-> Absent, carrierName |-> Absent, totalCharges |-> Absent,
     brokerCommission |-> Absent, personsCovered |-> Absent]

Text2025 == <<"2", "0", "2", "5">>
Text02021 == <<"0", "2", "0", "2", "1">>
Text999 == <<"9", "9", "9">>

Company(name, schedule_a, form5500) ==
    [companyName |-> name, scheduleA |-> schedule_a, form5500 |-> form5500]
ScheduleA(details) == Dict([details |-> Dict(details)])
Form5500(years, records) == Dict([years |-> years, records |-> records])
Participants(n) == [active_participants |-> n]

\* companies: Schedule A years 2023, 2024 alone, 2025 with 2024, 2021, 999;
\* a plan that does not parse in the selected year or in another year or
\* under a key that is not the selected text; a plan without fields; an
\* empty plan list; no Schedule A but Form 5500 years; nothing at all
Companies ==
    { Company(Str(<<"A">>), ScheduleA(Text2023 :> <<GoodPlan>>),
              Form5500(List(<<Text2023, Text2024>>),
                       Dict(Text2023 :> <<Participants(IntV(5)), Participants(Absent),
                                          Participants(NoneV)>>))),
      Company(Str(<<"B">>), ScheduleA(Text2024 :> <<GoodPlan>>), Absent),
      Company(Str(<<"C">>),
              ScheduleA((Text2025 :> <<GoodPlan>>) @@ (Text2024 :> <<GoodPlan>>)), Absent),
      Company(Str(<<"D">>), ScheduleA(Text2023 :> <<GoodPlan, BadPremiumPlan>>), Absent),
      Company(Str(<<"D">>), ScheduleA(Text2023 :> <<BadFeePlan>>), Absent),
      Company(Str(<<"D">>), ScheduleA(Text2023 :> <<BadCountPlan, GoodPlan>>), Absent),
      Company(Str(<<"E">>),
              ScheduleA((Text2022 :> <<GoodPlan>>) @@ (Text2021 :> <<BadPremiumPlan>>)),
              Absent),
      Company(Str(<<"F">>), Dict(NoScheduleA),
              Form5500(List(<<Text2022, Text2024>>), Absent)),
      Company(Str(<<"F">>), Absent,
              Form5500(List(<<Text2024>>), Dict(Text2024 :> <<Participants(IntV(7))>>))),
      Company(Str(<<"F">>), Absent, Form5500(List(<<<<"a", "b", "c">>>>), Absent)),
      Company(Absent, Absent, Absent),
      Company(Absent, ScheduleA(Text2021 :> <<EmptyPlan>>), Dict(NoForm5500)),
      Company(Str(<<"G">>), ScheduleA(Text02021 :> <<BadPremiumPlan>>), Absent),
      Company(Str(<<"H">>), ScheduleA(Text2023 :> <<>>),
              Form5500(List(<<Text2024>>), Absent)),
      Company(Str(<<"I">>), ScheduleA(Text999 :> <<GoodPlan>>), Absent) }

\* what the input path holds: no file, text that is not JSON, or a document
NoInput == <<"nofile">>
NotJson == <<"notjson">>
Json(doc) == <<"json", doc>>
InputFiles ==
    { NoInput, NotJson, Json([companies |-> Absent, timestamp |-> Absent]) }
    \cup { Json([companies |-> List(l), timestamp |-> Str(<<"t">>)]) :
             l \in SeqsUpTo(Companies, MaxCompanies) }

\* the output path before anything is written to it
NotWritten == <<>>

\* raw_data.get("companies", [])
RawCompanies == Get(raw_data.companies, List(<<>>))[2]

PEInit ==
    /\ pc = "pe_open"
    /\ input_file \in InputFiles
    /\ raw_data = <<>>
    /\ processed_companies = <<>>
    /\ companies_with_data = 0
    /\ output_file = NotWritten
    /\ YearIdle /\ IndexIdle /\ ClassifyIdle /\ MainIdle /\ AggIdle

\* lines 171-172: the input is loaded
PELoad ==
    /\ pc = "pe_open"
    /\ input_file[1] = "json"
    /\ raw_data' = input_file[2]
    /\ pc' = "pe_loop"
    /\ UNCHANGED <<input_file, processed_companies, companies_with_data, output_file,
                   YearVars, IndexVars, ClassifyVars, MainVars, AggVars>>

\* lines 229-234: open or json.load raises; the handlers exit with status 1
PELoadFails ==
    /\ pc = "pe_open"
    /\ input_file[1] # "json"
    /\ pc' = "pe_exit1"
    /\ UNCHANGED <<PEVars, YearVars, IndexVars, ClassifyVars, MainVars, AggVars>>

\* lines 182-187: one iteration of the company loop
PECompany ==
    /\ pc = "pe_loop"
    /\ Len(processed_companies) < Len(RawCompanies)
    /\ LET processed_company ==
               process_company_data(RawCompanies[Len(processed_companies) + 1])
       IN /\ ~IsRaised(processed_company)
          /\ processed_companies' = Append(processed_companies, processed_company[2])
          /\ companies_with_data' =
                 IF processed_company[2].has_data THEN companies_with_data + 1
                 ELSE companies_with_data
    /\ UNCHANGED <<pc, input_file, raw_data, output_file,
                   YearVars, IndexVars, ClassifyVars, MainVars, AggVars>>

\* lines 235-237: process_company_data raises; the handler exits with status 1
PECompanyFails ==
    /\ pc = "pe_loop"
    /\ Len(processed_companies) < Len(RawCompanies)
    /\ IsRaised(process_company_data(RawCompanies[Len(processed_companies) + 1]))
    /\ pc' = "pe_exit1"
    /\ UNCHANGED <<PEVars, YearVars, IndexVars, ClassifyVars, MainVars, AggVars>>

\* lines 189-227: after the loop the summary is computed and the file written
PEWrite ==
    /\ pc = "pe_loop"
    /\ Len(processed_companies) = Len(RawCompanies)
    /\ output_file' = Dict(ProcessedData(raw_data, processed_companies, companies_with_data))
    /\ pc' = "pe_done"
    /\ UNCHANGED <<input_file, raw_data, processed_companies, companies_with_data,
                   YearVars, IndexVars, ClassifyVars, MainVars, AggVars>>

PENext == PELoad \/ PELoadFails \/ PECompany \/ PECompanyFails \/ PEWrite

SpecPE == PEInit /\ [][PENext]_vars

----------------------------------------------------------------------------
(* Properties of process_pe_data and process_company_data *)

\* the input document has been loaded
Loaded == raw_data # <<>>

\* the plan records of the year selected for a company
SelectedYearPlans(company) ==
    LET details == ScheduleADetails(company)
        data_year == SelectYear(company)
    IN IF HasYear(details, data_year) THEN details[data_year[2]] ELSE <<>>

\* the text of a field, blank or missing counting as 0, is not a decimal number
NonNumeric(v) == ~CanParseFloat(FieldOrZero(v))

HasNonNumericPlan(company) ==
    \E i \in 1..Len(SelectedYearPlans(company)) :
        LET plan == SelectedYearPlans(company)[i]
        IN \/ NonNumeric(plan.totalCharges)
           \/ NonNumeric(plan.brokerCommission)
           \/ NonNumeric(plan.personsCovered)

\* the loop is about to process a company with a non-numeric plan text
AtNonNumericCompany ==
    /\ pc = "pe_loop"
    /\ Len(processed_companies) < Len(RawCompanies)
    /\ HasNonNumericPlan(RawCompanies[Len(processed_companies) + 1])

FailureWritesNothing ==
    /\ pc = "pe_exit1" => output_file = NotWritten
    /\ ~Loaded => output_file = NotWritten
    /\ Loaded =>
         /\ \A i \in 1..Len(RawCompanies) :
                HasNonNumericPlan(RawCompanies[i]) =>
                    /\ Len(processed_companies) < i
                    /\ pc # "pe_done"
                    /\ output_file = NotWritten
         /\ output_file # NotWritten =>
                /\ pc = "pe_done"
                /\ Len(processed_companies) = Len(RawCompanies)
                /\ output_file[2].companies = processed_companies
                /\ output_file[2].summary.total_companies = Len(RawCompanies)
                /\ \A i \in 1..Len(RawCompanies) :
                       process_company_data(RawCompanies[i])
                           = Returned(processed_companies[i])

SelectedYears == YearsFound(output_file[2].companies)
SummaryYear == output_file[2].summary.most_recent_year[2]

C15_WitnessStringOrder ==
    /\ pc = "pe_done"
    /\ SelectedYears = {Text999, Text2021}
    /\ SummaryYear = Text999

\* the company with its Form 5500 block taken away
WithoutForm5500(company) == [company EXCEPT !.form5500 = Absent]

\* the data year of the result is not the one Schedule A alone gives
YearFromForm5500(company, result) ==
    result.data_year # process_company_data(WithoutForm5500(company))[2].data_year

\* C16: for every processed company, when Schedule A has a year the data
\* year is the one resolved from the Schedule A years, with or without the
\* Form 5500 block; a data year taken from the Form 5500 list occurs only
\* with no Schedule A year, and then has_data is false, the totals are zero
\* and the plan list is empty.
C16_Form5500OnlyWithoutScheduleA ==
    Loaded =>
        \A i \in 1..Len(processed_companies) :
            LET company == RawCompanies[i]
                result == processed_companies[i]
                keys == DOMAIN ScheduleADetails(company)
            IN /\ keys # {} =>
                    /\ result.data_year = get_preferred_year(KeyList(keys))
                    /\ ~YearFromForm5500(company, result)
               /\ YearFromForm5500(company, result) =>
                    /\ keys = {}
                    /\ result.has_data = FALSE
                    /\ result.total_premiums = 0
                    /\ result.total_brokerage_fees = 0
                    /\ result.total_people_covered = 0
                    /\ result.plans = <<>>

\* C16 witness: a company without Schedule A years got 2022 from its
\* Form 5500 list and is reported without data; a company with Schedule A
\* year 2023 and Form 5500 year 2024 got 2023.
C16_Witness ==
    /\ Loaded
    /\ Len(processed_companies) = 2
    /\ DOMAIN ScheduleADetails(RawCompanies[1]) = {}
    /\ processed_companies[1].data_year = Str(Text2022)
    /\ ~processed_companies[1].has_data
    /\ DOMAIN ScheduleADetails(RawCompanies[2]) = {Text2023}
    /\ Get(RawCompanies[2].form5500, Dict(NoForm5500))[2].years = List(<<Text2024>>)
    /\ processed_companies[2].data_year = Str(Text2023)

----------------------------------------------------------------------------
(* Missing fields in the two pipelines *)

\* runs of the aggregation pipeline and runs of the classifier
PipelinesInit == PEInit \/ ClassifyInit
PipelinesNext == PENext \/ ClassifyNext
SpecPipelines == PipelinesInit /\ [][PipelinesNext]_vars

\* a plan record, and a Form 5500 record, with every missing field written
\* out as the default the code reads in its place
PlanWithDefaults(plan) ==
    [benefitType |-> Get(plan.benefitType, Str(<<>>)),
     carrierName |-> Get(plan.carrierName, Str(<<>>)),
     totalCharges |-> Get(plan.totalCharges, Str(<<"0">>)),
     brokerCommission |-> Get(plan.brokerCommission, Str(<<"0">>)),
     personsCovered |-> Get(plan.personsCovered, Str(<<"0">>))]
RecordWithDefaults(record) ==
    [active_participants |-> Get(record.active_participants, IntV(0))]

\* a company with every missing field written out as its default
CompanyWithDefaults(company) ==
    LET details == ScheduleADetails(company)
        form5500 == Get(company.form5500, Dict(NoForm5500))[2]
        records == Get(form5500.records, Dict(<<>>))[2]
    IN [companyName |-> Get(company.companyName, Str(UnknownCompany)),
        scheduleA |->
            ScheduleA([y \in DOMAIN details |->
                         [i \in 1..Len(details[y]) |-> PlanWithDefaults(details[y][i])]]),
        form5500 |->
            Form5500(Get(form5500.years, List(<<>>)),
                     Dict([y \in DOMAIN records |->
                             [i \in 1..Len(records[y]) |->
                                RecordWithDefaults(records[y][i])]]))]

\* a header row with every missing field written out as its default
HeaderWithDefaults(h) ==
    [SPONSOR_DFE_NAME |-> Get(h.SPONSOR_DFE_NAME, Str(<<>>)),
     PLAN_NAME |-> Get(h.PLAN_NAME, Str(<<>>)),
     SPONS_DFE_EIN |-> Get(h.SPONS_DFE_EIN, Str(<<>>)),
     SPONS_DFE_PN |-> Get(h.SPONS_DFE_PN, Str(<<>>)),
     TYPE_WELFARE_BNFT_CODE |-> Get(h.TYPE_WELFARE_BNFT_CODE, Str(<<>>)),
     FORM_PLAN_YEAR_BEGIN_DATE |-> Get(h.FORM_PLAN_YEAR_BEGIN_DATE, Str(<<>>)),
     FORM_TAX_PRD |-> Get(h.FORM_TAX_PRD, Str(<<>>)),
     BENEFIT_INSURANCE_IND |-> Get(h.BENEFIT_INSURANCE_IND, Str(<<"0">>)),
     BENEFIT_GEN_ASSET_IND |-> Get(h.BENEFIT_GEN_ASSET_IND, Str(<<"0">>)),
     FUNDING_INSURANCE_IND |-> Get(h.FUNDING_INSURANCE_IND, Str(<<"0">>)),
     FUNDING_GEN_ASSET_IND |-> Get(h.FUNDING_GEN_ASSET_IND, Str(<<"0">>)),
     SCH_A_ATTACHED_IND |-> Get(h.SCH_A_ATTACHED_IND, Str(<<"0">>)),
     NUM_SCH_A_ATTACHED_CNT |-> Get(h.NUM_SCH_A_ATTACHED_CNT, Str(<<"0">>))]

\* the company lacks a field the aggregation pipeline reads
LacksField(company) == company # CompanyWithDefaults(company)

\* the header row lacks a field the classifier reads
HeaderLacksField(h) == h # HeaderWithDefaults(h)

AllLabels ==
    { LabelInsured, LabelStopLoss, LabelLikelySelfFundedSchedA, LabelSelfFunded,
      LabelLikelyInsured, LabelIndeterminate, LabelLikelySelfFundedAbsence }

\* the classifier treats a missing field as its default and returns a label
ClassificationTolerates ==
    pc = "classified" =>
        /\ verdict[1] \in AllLabels
        /\ verdict = classify_plan(HeaderWithDefaults(header_row), idx_by_begin, idx_by_end)

\* C14 as stated: a company record that lacks a field ends the aggregation
\* run (the loop never gets past it), while the classifier treats a missing
\* field as its default and returns a label.
C14_MissingFieldIsFatal ==
    /\ Loaded =>
         \A i \in 1..Len(RawCompanies) :
             LacksField(RawCompanies[i]) => Len(processed_companies) < i
    /\ ClassificationTolerates

\* C14 amended: in both pipelines a missing field is read as its default and
\* ends nothing: every company gives what the same company with the defaults
\* written out gives, result or exception alike, the loop's results are those
\* results, and the classifier returns the label of the row with the defaults
\* written out.
C14_MissingFieldIsDefault ==
    /\ Loaded =>
         /\ \A i \in 1..Len(RawCompanies) :
                process_company_data(RawCompanies[i])
                    = process_company_data(CompanyWithDefaults(RawCompanies[i]))
         /\ \A i \in 1..Len(processed_companies) :
                Returned(processed_companies[i])
                    = process_company_data(CompanyWithDefaults(RawCompanies[i]))
    /\ ClassificationTolerates

\* C14 witness: a company without name, Form 5500 records or any plan field
\* has been processed with has_data true and zero totals, and the output has
\* been written.
C14_Witness ==
    /\ pc = "pe_done"
    /\ Len(RawCompanies) = 1
    /\ RawCompanies[1].companyName = Absent
    /\ SelectedYearPlans(RawCompanies[1]) = <<EmptyPlan>>
    /\ processed_companies[1].company_name = Str(UnknownCompany)
    /\ processed_companies[1].has_data
    /\ processed_companies[1].total_premiums = 0
    /\ processed_companies[1].total_people_covered = 0
    /\ output_file # NotWritten

\* C14 witness in the classifier: a header row without its end date and
\* without its insurance indicators has been classified.
C14_WitnessClassified ==
    /\ pc = "classified"
    /\ header_row.FORM_TAX_PRD = Absent
    /\ header_row.BENEFIT_INSURANCE_IND = Absent
    /\ header_row.FUNDING_INSURANCE_IND = Absent
    /\ verdict[1] \in AllLabels

====
